---- MODULE Spec2Model ----
(***************************************************************************)
(* Model of the mutter crate (sigaloid/mutter): the Transcript renderers   *)
(* and format_timestamp of src/transcript.rs, decode of src/transcode.rs   *)
(* and Model::download, Model::transcribe_audio and                        *)
(* Model::transcribe_pcm_s16le of src/lib.rs.                              *)
(*                                                                         *)
(* Strings are sequences of one-character strings.  An i64 is a record     *)
(* [neg, mag]: a sign and a magnitude written as decimal digits, most      *)
(* significant first, without leading zeros, so that the 64-bit range and  *)
(* its wrap-around are exact.                                              *)
(***************************************************************************)
EXTENDS Integers, Sequences, FiniteSets, TLC

VARIABLES
    overflow_checks,  \* the build's overflow-checks setting (on in dev, off in release)
    utterances,       \* Transcript::utterances of the transcript being rendered
    engine,           \* what the whisper context answers to each call
    call,             \* the operation that ran ("none" before any)
    args,             \* the arguments it ran with
    result            \* what it returned, or the panic it ended with

vars == <<overflow_checks, utterances, engine, call, args, result>>

\* ------------------------------------------------------------------ values

None == [some |-> FALSE]

Some(v) == [some |-> TRUE, val |-> v]

NoResult == [kind |-> "none"]

Ok(v) == [kind |-> "ok", value |-> v]

Err(e) == [kind |-> "err", error |-> e]

Panic(msg) == [kind |-> "panic", msg |-> msg]

\* ------------------------------------------------- decimal magnitudes

RECURSIVE StripZeros(_)
StripZeros(d) ==
    IF Len(d) > 1 /\ d[1] = 0 THEN StripZeros(Tail(d)) ELSE d

RECURSIVE LexCmp(_, _)
LexCmp(a, b) ==
    IF a = <<>> THEN 0
    ELSE IF a[1] < b[1] THEN -1
    ELSE IF a[1] > b[1] THEN 1
    ELSE LexCmp(Tail(a), Tail(b))

\* -1, 0 or 1 as magnitude a is below, equal to or above magnitude b.
CmpMag(a, b) ==
    IF Len(a) < Len(b) THEN -1
    ELSE IF Len(a) > Len(b) THEN 1
    ELSE LexCmp(a, b)

RECURSIVE Zeros(_)
Zeros(n) == IF n <= 0 THEN <<>> ELSE <<0>> \o Zeros(n - 1)

RECURSIVE SubRec(_, _, _, _)
SubRec(a, b, i, borrow) ==
    IF i = 0 THEN <<>>
    ELSE LET d == a[i] - b[i] - borrow
         IN  SubRec(a, b, i - 1, IF d < 0 THEN 1 ELSE 0)
                 \o <<IF d < 0 THEN d + 10 ELSE d>>

\* a - b for magnitudes a >= b.
SubMag(a, b) ==
    StripZeros(SubRec(a, Zeros(Len(a) - Len(b)) \o b, Len(a), 0))

RECURSIVE IncRec(_, _, _)
IncRec(a, i, carry) ==
    IF i = 0 THEN (IF carry = 1 THEN <<1>> ELSE <<>>)
    ELSE LET d == a[i] + carry
         IN  IncRec(a, i - 1, IF d > 9 THEN 1 ELSE 0) \o <<d % 10>>

\* a + 1.
IncMag(a) == IncRec(a, Len(a), 1)

\* a * 10.
Mul10Mag(a) == StripZeros(a \o <<0>>)

RECURSIVE DivRec(_, _, _, _, _)
DivRec(a, d, i, rem, q) ==
    IF i > Len(a) THEN [q |-> StripZeros(q), r |-> rem]
    ELSE LET cur == rem * 10 + a[i]
         IN  DivRec(a, d, i + 1, cur % d, q \o <<cur \div d>>)

\* Quotient (a magnitude) and remainder (a number below d) of a by the number d.
DivMag(a, d) == DivRec(a, d, 1, 0, <<0>>)

RECURSIVE NatDigits(_)
NatDigits(n) ==
    IF n < 10 THEN <<n>> ELSE NatDigits(n \div 10) \o <<n % 10>>

\* ----------------------------------------------------------------- i64

I64(neg, mag) == [neg |-> neg, mag |-> mag]

Two63 == <<9,2,2,3,3,7,2,0,3,6,8,5,4,7,7,5,8,0,8>>

Two64 == <<1,8,4,4,6,7,4,4,0,7,3,7,0,9,5,5,1,6,1,6>>

\* i64::MAX = 2^63 - 1
I64MaxMag == <<9,2,2,3,3,7,2,0,3,6,8,5,4,7,7,5,8,0,7>>

\* Whether the signed value (neg, mag) lies outside i64.
OutOfI64(neg, mag) ==
    IF neg THEN CmpMag(mag, Two63) > 0 ELSE CmpMag(mag, I64MaxMag) > 0

RECURSIVE Mod2p64(_)
Mod2p64(m) ==
    IF CmpMag(m, Two64) >= 0 THEN Mod2p64(SubMag(m, Two64)) ELSE m

\* The i64 that two's-complement arithmetic leaves for the exact value (neg, mag).
WrapI64(neg, mag) ==
    LET r == Mod2p64(mag)
        u == IF neg /\ r # <<0>> THEN SubMag(Two64, r) ELSE r
    IN  IF CmpMag(u, Two63) >= 0 THEN I64(TRUE, SubMag(Two64, u))
        ELSE I64(FALSE, u)

\* num::integer::div_floor(x, d) for a positive number d, together with
\* x - div_floor(x, d) * d, which lies in 0 .. d-1.
DivFloor(x, d) ==
    LET dm == DivMag(x.mag, d)
    IN  IF ~x.neg THEN [q |-> I64(FALSE, dm.q), r |-> dm.r]
        ELSE IF dm.r = 0 THEN [q |-> I64(dm.q # <<0>>, dm.q), r |-> 0]
        ELSE [q |-> I64(TRUE, IncMag(dm.q)), r |-> d - dm.r]

\* -------------------------------------------------------------- strings

DigitChar(d) == <<"0", "1", "2", "3", "4", "5", "6", "7", "8", "9">>[d + 1]

DigitChars(ds) == [k \in 1..Len(ds) |-> DigitChar(ds[k])]

\* The number written without its zero padding, as "{n}" in place of "{n:0w$}".
PadZeroForgotten(neg, mag, w) ==
    (IF neg THEN <<"-">> ELSE <<>>) \o DigitChars(mag)

\* format!("{n:0w$}") of the integer with sign neg and magnitude mag: the sign
\* counts towards the width, the zeros follow it.
PadZero(neg, mag, w) ==
    LET sign == IF neg THEN <<"-">> ELSE <<>>
        fill == Zeros(w - Len(sign) - Len(mag))
    IN  sign \o DigitChars(fill \o mag)

\* ---------------------------------------------------- format_timestamp

HourMs == 3600000

MinuteMs == 60000

SecondMs == 1000

FormatTimestamp(num, always_include_hours, decimal_marker, checks) ==
    IF num.neg THEN Panic("non-negative timestamp expected")
    ELSE LET exact == Mul10Mag(num.mag) IN
    IF checks /\ OutOfI64(FALSE, exact) THEN Panic("attempt to multiply with overflow")
    ELSE LET milliseconds == WrapI64(FALSE, exact)
             h == DivFloor(milliseconds, HourMs)
             hours == h.q
             minutes == h.r \div MinuteMs
             ms2 == h.r - minutes * MinuteMs
             seconds == ms2 \div SecondMs
             ms3 == ms2 - seconds * SecondMs
             hours_marker ==
                 IF always_include_hours \/ hours.mag # <<0>>
                 THEN PadZero(hours.neg, hours.mag, 2) \o <<":">>
                 ELSE <<>>
         IN  Ok(hours_marker \o PadZero(FALSE, NatDigits(minutes), 2) \o <<":">>
                 \o PadZero(FALSE, NatDigits(seconds), 2) \o decimal_marker
                 \o PadZero(FALSE, NatDigits(ms3), 3))

RECURSIVE ConcatTexts(_)
ConcatTexts(tokens) ==
    IF tokens = <<>> THEN <<>> ELSE Head(tokens).text \o ConcatTexts(Tail(tokens))

\* ------------------------------------------------------------ Transcript

Utterance(start, stop, text) == [start |-> start, stop |-> stop, text |-> text]

\* char::is_whitespace, over the characters the model's texts are made of.
IsWhitespace(c) == c \in {" ", "\n", "\t"}

RECURSIVE TrimStart(_)
TrimStart(s) ==
    IF s # <<>> /\ IsWhitespace(s[1]) THEN TrimStart(Tail(s)) ELSE s

RECURSIVE TrimEnd(_)
TrimEnd(s) ==
    IF s # <<>> /\ IsWhitespace(s[Len(s)]) THEN TrimEnd(SubSeq(s, 1, Len(s) - 1))
    ELSE s

\* Only the leading whitespace removed, as trim_start() in place of trim().
TrimLeadingOnly(s) == TrimStart(s)

\* str::trim
Trim(s) == TrimEnd(TrimStart(s))

\* str::replace(from, to): the matches of from are found left to right, each
\* search resuming after the previous match, and the result is not searched again.
RECURSIVE Replace(_, _, _)
Replace(s, from, to) ==
    IF Len(s) < Len(from) THEN s
    ELSE IF SubSeq(s, 1, Len(from)) = from
         THEN to \o Replace(SubSeq(s, Len(from) + 1, Len(s)), from, to)
    ELSE <<s[1]>> \o Replace(Tail(s), from, to)

LongArrow == <<"-", "-", ">">>

ShortArrow == <<"-", ">">>

\* " --> " between the two timestamps of a cue
CueArrow == <<" ">> \o LongArrow \o <<" ">>

Newline == <<"\n">>

VttHeader == <<"W", "E", "B", "V", "T", "T">> \o Newline

\* The text of a cue: fragment.text.trim().replace("-->", "->")
CueText(fragment) == Replace(Trim(fragment.text), LongArrow, ShortArrow)

RECURSIVE AsTextFold(_, _, _)
AsTextFold(us, k, transcript) ==
    IF k > Len(us) THEN transcript
    ELSE AsTextFold(us, k + 1, transcript \o Trim(us[k].text) \o Newline)

AsText(us) == Ok(AsTextFold(us, 1, <<>>))

RECURSIVE AsVttFold(_, _, _, _)
AsVttFold(us, k, transcript, checks) ==
    IF k > Len(us) THEN Ok(transcript)
    ELSE LET a == FormatTimestamp(us[k].start, TRUE, <<".">>, checks)
             b == FormatTimestamp(us[k].stop, TRUE, <<".">>, checks)
         IN  IF a.kind = "panic" THEN a
             ELSE IF b.kind = "panic" THEN b
             ELSE AsVttFold(us, k + 1,
                      transcript \o a.value \o CueArrow \o b.value \o Newline
                          \o CueText(us[k]) \o Newline \o Newline,
                      checks)

AsVtt(us, checks) ==
    LET vtt == AsVttFold(us, 1, <<>>, checks)
    IN  IF vtt.kind = "panic" THEN vtt ELSE Ok(VttHeader \o vtt.value)

\* The counter the fold of as_srt starts from.
SrtFirstIndex == 1

RECURSIVE AsSrtFold(_, _, _, _, _)
AsSrtFold(us, k, i, transcript, checks) ==
    IF k > Len(us) THEN Ok(transcript)
    ELSE LET a == FormatTimestamp(us[k].start, TRUE, <<",">>, checks)
             b == FormatTimestamp(us[k].stop, TRUE, <<",">>, checks)
         IN  IF a.kind = "panic" THEN a
             ELSE IF b.kind = "panic" THEN b
             ELSE AsSrtFold(us, k + 1, i + 1,
                      transcript \o DigitChars(NatDigits(i)) \o Newline
                          \o a.value \o CueArrow \o b.value \o Newline
                          \o CueText(us[k]) \o Newline,
                      checks)

AsSrt(us, checks) == AsSrtFold(us, 1, SrtFirstIndex, <<>>, checks)

\* ----------------------------------------------------------------- decode

\* The scale of whisper_rs::convert_integer_to_float_audio: sample / 32768.0
SampleScale == 32768

\* whisper_rs::convert_integer_to_float_audio(&samples, &mut output), output being
\* out_len floats: a sample s becomes the float s / 32768.
ConvertIntegerToFloatAudio(samples, out_len) ==
    IF Len(samples) # out_len THEN Err([WhisperError |-> "InputOutputLengthMismatch"])
    ELSE Ok([k \in 1..Len(samples) |-> [num |-> samples[k], den |-> SampleScale]])

\* decode(bytes).  bytes.recognized: whether rodio's Decoder::new accepts the input;
\* bytes.stream: the i16 samples that the resampled and filtered source yields.
Decode(bytes) ==
    IF ~bytes.recognized THEN Panic("called Result::unwrap() on an Err value")
    ELSE LET samples == bytes.stream
         IN  ConvertIntegerToFloatAudio(samples, Len(samples))

\* ------------------------------------------------------------- transcribe

\* Whether the engine fails the call named c for segment i and token j (counted from
\* 0 as the code counts them; 0 where the call takes no such index).
Fails(eng, c, i, j) ==
    /\ eng.fault.some
    /\ eng.fault.val.call = c
    /\ eng.fault.val.segment = i
    /\ eng.fault.val.token = j

\* .map_err(ModelError::WhisperError)?
WhisperErr(eng) == Err([WhisperError |-> eng.fault.val.error])

\* Only the first character of the prefix compared.
StartsWithFirstChar(s, prefix) ==
    prefix = <<>> \/ (s # <<>> /\ s[1] = prefix[1])

\* str::starts_with
StartsWith(s, prefix) ==
    Len(s) >= Len(prefix) /\ SubSeq(s, 1, Len(prefix)) = prefix

\* "[_", which opens the text of the engine's special tokens
SpecialPrefix == <<"[", "_">>

\* word_utterances whatever was asked for.
WordUtterancesAlwaysSome(word_timestamps, words) == Some(words)

WordUtterances(word_timestamps, words) ==
    IF word_timestamps THEN Some(words) ELSE None

\* for t in 0..num_tokens { ... }
RECURSIVE TokenLoop(_, _, _, _)
TokenLoop(eng, segment_idx, t, words) ==
    LET tokens == eng.segments[segment_idx + 1].tokens IN
    IF t >= Len(tokens) THEN Ok(words)
    ELSE IF Fails(eng, "full_get_token_text", segment_idx, t) THEN WhisperErr(eng)
    ELSE IF Fails(eng, "full_get_token_data", segment_idx, t) THEN WhisperErr(eng)
    ELSE LET text == tokens[t + 1].text
             token_data == tokens[t + 1]
         IN  IF StartsWith(text, SpecialPrefix)
             THEN TokenLoop(eng, segment_idx, t + 1, words)
             ELSE TokenLoop(eng, segment_idx, t + 1,
                      Append(words, Utterance(token_data.t0, token_data.t1, text)))

\* for segment_idx in 0..num_segments { ... } and the Transcript built after it
\* (processing_time, a wall-clock duration, is left out).
RECURSIVE SegmentLoop(_, _, _, _, _)
SegmentLoop(eng, word_timestamps, segment_idx, words, utts) ==
    IF segment_idx >= Len(eng.segments)
    THEN Ok([utterances |-> utts,
             word_utterances |-> WordUtterances(word_timestamps, words)])
    ELSE IF Fails(eng, "full_get_segment_text", segment_idx, 0) THEN WhisperErr(eng)
    ELSE IF Fails(eng, "full_get_segment_t0", segment_idx, 0) THEN WhisperErr(eng)
    ELSE IF Fails(eng, "full_get_segment_t1", segment_idx, 0) THEN WhisperErr(eng)
    ELSE LET seg == eng.segments[segment_idx + 1]
             pushed == Append(utts, Utterance(seg.t0, seg.t1, seg.text))
         IN  IF ~word_timestamps
             THEN SegmentLoop(eng, word_timestamps, segment_idx + 1, words, pushed)
             ELSE IF Fails(eng, "full_n_tokens", segment_idx, 0) THEN WhisperErr(eng)
             ELSE LET inner == TokenLoop(eng, segment_idx, 0, words)
                  IN  IF inner.kind # "ok" THEN inner
                      ELSE SegmentLoop(eng, word_timestamps, segment_idx + 1,
                                       inner.value, pushed)

\* Model::transcribe_pcm_s16le.  translate, initial_prompt, language and threads only
\* set the engine's parameters; the samples only reach the engine.
TranscribePcmS16le(eng, word_timestamps) ==
    IF Fails(eng, "create_state", 0, 0) THEN Panic("failed to create state")
    ELSE IF Fails(eng, "full", 0, 0) THEN Panic("failed to transcribe")
    ELSE IF Fails(eng, "full_n_segments", 0, 0) THEN Panic("failed to get segments")
    ELSE SegmentLoop(eng, word_timestamps, 0, <<>>, <<>>)

\* Model::transcribe_audio
TranscribeAudio(eng, audio, word_timestamps) ==
    LET samples == Decode(audio)
    IN  IF samples.kind # "ok" THEN samples
        ELSE TranscribePcmS16le(eng, word_timestamps)

\* ------------------------------------------------------------ inputs

Nat64(n) == I64(FALSE, NatDigits(n))

\* i64::MAX div 10, the largest timestamp whose tenfold is an i64
MaxDiv10Mag == <<9,2,2,3,3,7,2,0,3,6,8,5,4,7,7,5,8,0>>

NoEngine == [kind |-> "none"]

NoArgs == [op |-> "none"]

\* Centisecond timestamps around every boundary of the conversion: the units,
\* 100 hours, the last value whose tenfold fits, i64::MAX, and negative ones.
SampleTimestamps ==
    { Nat64(0), Nat64(1), Nat64(99), Nat64(100), Nat64(150), Nat64(5999),
      Nat64(6000), Nat64(359999), Nat64(360000), Nat64(35999999),
      Nat64(36000000), I64(FALSE, MaxDiv10Mag), I64(FALSE, IncMag(MaxDiv10Mag)),
      I64(FALSE, I64MaxMag), I64(TRUE, <<1>>), I64(TRUE, Two63) }

\* Timestamps at the ends of every field: hours 0, 1, 99 and 100, minutes and
\* seconds 0 and 59, hundredths 0 and 99.
GridTimestamps ==
    { Nat64(((h * 60 + m) * 60 + sec) * 100 + cs) :
          h \in {0, 1, 99, 100}, m \in {0, 59}, sec \in {0, 59}, cs \in {0, 99} }

DecimalMarkers == {<<".">>, <<",">>}

\* The length of the longest utterance text drawn exhaustively.
MaxTextLen == 5

\* The number of utterances of the longest transcript.
MaxUtterances == 2

TextAlphabet == {" ", "-", ">", "a"}

AllTexts == UNION {[1..n -> TextAlphabet] : n \in 0..MaxTextLen}

HelloWorld == <<" ", "h", "e", "l", "l", "o", " ", "w", "o", "r", "l", "d", " ">>

SampleTexts ==
    { HelloWorld, <<"a", "-", "-", ">", "b">>, <<"\n", "a", " ", "b", "\t">>, <<>> }

SampleTimes ==
    { <<Nat64(0), Nat64(150)>>, <<Nat64(150), Nat64(36000000)>>,
      <<I64(TRUE, <<1>>), Nat64(0)>>, <<Nat64(100), I64(TRUE, <<1>>)>>,
      <<I64(FALSE, IncMag(MaxDiv10Mag)), I64(FALSE, I64MaxMag)>> }

SampleUtterances ==
    {Utterance(t[1], t[2], x) : t \in SampleTimes, x \in SampleTexts}

\* The transcripts rendered: one utterance with any text of the alphabet, and
\* every sequence of up to MaxUtterances sample utterances.
Transcripts ==
    {<<Utterance(Nat64(0), Nat64(150), x)>> : x \in AllTexts}
        \cup UNION {[1..n -> SampleUtterances] : n \in 0..MaxUtterances}

\* ------------------------------------------- format_timestamp, called alone

InitFormat ==
    /\ overflow_checks \in BOOLEAN
    /\ utterances = <<>>
    /\ engine = NoEngine
    /\ call = "none"
    /\ args = NoArgs
    /\ result = NoResult

CallFormatTimestamp ==
    /\ call = "none"
    /\ \E num \in SampleTimestamps \cup GridTimestamps, always \in BOOLEAN, marker \in DecimalMarkers :
          /\ args' = [num |-> num, always_include_hours |-> always,
                      decimal_marker |-> marker]
          /\ result' = FormatTimestamp(num, always, marker, overflow_checks)
    /\ call' = "format_timestamp"
    /\ UNCHANGED <<overflow_checks, utterances, engine>>

NextFormat == CallFormatTimestamp

SpecFormat == InitFormat /\ [][NextFormat]_vars

\* --------------------------------------------------- rendering a Transcript

InitRender ==
    /\ overflow_checks \in BOOLEAN
    /\ utterances \in Transcripts
    /\ engine = NoEngine
    /\ call = "none"
    /\ args = NoArgs
    /\ result = NoResult

CallAsText ==
    /\ call = "none"
    /\ call' = "as_text"
    /\ result' = AsText(utterances)
    /\ UNCHANGED <<overflow_checks, utterances, engine, args>>

CallAsVtt ==
    /\ call = "none"
    /\ call' = "as_vtt"
    /\ result' = AsVtt(utterances, overflow_checks)
    /\ UNCHANGED <<overflow_checks, utterances, engine, args>>

CallAsSrt ==
    /\ call = "none"
    /\ call' = "as_srt"
    /\ result' = AsSrt(utterances, overflow_checks)
    /\ UNCHANGED <<overflow_checks, utterances, engine, args>>

NextRender == CallAsText \/ CallAsVtt \/ CallAsSrt

SpecRender == InitRender /\ [][NextRender]_vars

\* ------------------------------------------------------ decode, called alone

\* The number of samples of the longest decoded stream.
MaxSamples == 4

SampleValues == {-32768, -1, 0, 32767}

\* Bytes that no decoder recognizes, and bytes that decode to each stream of up to
\* MaxSamples samples.
AudioInputs ==
    {[recognized |-> FALSE, stream |-> <<>>]}
        \cup {[recognized |-> TRUE, stream |-> x] :
                  x \in UNION {[1..n -> SampleValues] : n \in 0..MaxSamples}}

InitDecode ==
    /\ overflow_checks = FALSE
    /\ utterances = <<>>
    /\ engine = NoEngine
    /\ call = "none"
    /\ args = NoArgs
    /\ result = NoResult

CallDecode ==
    /\ call = "none"
    /\ \E bytes \in AudioInputs :
          /\ args' = [bytes |-> bytes]
          /\ result' = Decode(bytes)
    /\ call' = "decode"
    /\ UNCHANGED <<overflow_checks, utterances, engine>>

NextDecode == CallDecode

SpecDecode == InitDecode /\ [][NextDecode]_vars

\* ---------------------------------------------------------- transcribing

\* The number of segments of the longest inference output.
MaxSegments == 2

\* The number of tokens of the longest segment.
MaxTokens == 2

Token(text, t0, t1) == [text |-> text, t0 |-> t0, t1 |-> t1]

\* "[_BEG_]", a special token of the engine
BegToken == Token(<<"[", "_", "B", "E", "G", "_", "]">>, Nat64(0), Nat64(0))

\* " hi", a word
WordToken == Token(<<" ", "h", "i">>, Nat64(0), Nat64(50))

\* "[hi]": a word that opens with a bracket
BracketToken == Token(<<"[", "h", "i", "]">>, Nat64(50), Nat64(150))

SampleTokens == {BegToken, WordToken, BracketToken}

TokenLists == UNION {[1..n -> SampleTokens] : n \in 0..MaxTokens}

\* A segment of the engine with these tokens: its text is that of its tokens other
\* than the special one, its time span runs from its first to its last token.
Segment(tokens) ==
    [ text |-> ConcatTexts(SelectSeq(tokens, LAMBDA k : k # BegToken)),
      t0 |-> IF tokens = <<>> THEN Nat64(0) ELSE tokens[1].t0,
      t1 |-> IF tokens = <<>> THEN Nat64(0) ELSE tokens[Len(tokens)].t1,
      tokens |-> tokens ]

SegmentLists ==
    UNION {[1..n -> {Segment(x) : x \in TokenLists}] : n \in 0..MaxSegments}

WhisperErrors == {"NullPointer", "InvalidUtf8"}

Fault(c, i, j, e) == [call |-> c, segment |-> i, token |-> j, error |-> e]

\* The calls that transcribe_pcm_s16le can make on an engine with these segments.
EngineCalls(segments) ==
    {<<c, 0, 0>> : c \in {"create_state", "full", "full_n_segments"}}
        \cup {<<c, i, 0>> :
                  c \in {"full_get_segment_text", "full_get_segment_t0",
                         "full_get_segment_t1", "full_n_tokens"},
                  i \in 0..(Len(segments) - 1)}
        \cup UNION {{<<c, i, j>> :
                         c \in {"full_get_token_text", "full_get_token_data"},
                         j \in 0..(Len(segments[i + 1].tokens) - 1)} :
                    i \in 0..(Len(segments) - 1)}

\* The segment lists of the engines that fail a call: up to MaxSegments segments,
\* each without tokens or with a special token and a word.
FaultySegmentLists ==
    UNION {[1..n -> {Segment(<<>>), Segment(<<BegToken, WordToken>>)}] :
               n \in 0..MaxSegments}

\* Engines that answer every call, with every inference output, and engines that
\* fail one call, at every place where a call is made.
Engines ==
    {[segments |-> x, fault |-> None] : x \in SegmentLists}
        \cup UNION {{[segments |-> x, fault |-> Some(Fault(c[1], c[2], c[3], e))] :
                         c \in EngineCalls(x), e \in WhisperErrors} :
                    x \in FaultySegmentLists}

\* Audio given to transcribe_audio: bytes no decoder recognizes, and a recording.
SampleAudio ==
    { [recognized |-> FALSE, stream |-> <<>>],
      [recognized |-> TRUE, stream |-> <<0, 32767, -32768>>] }

InitTranscribe ==
    /\ overflow_checks = FALSE
    /\ utterances = <<>>
    /\ engine \in Engines
    /\ call = "none"
    /\ args = NoArgs
    /\ result = NoResult

CallTranscribePcmS16le ==
    /\ call = "none"
    /\ \E word_timestamps \in BOOLEAN :
          /\ args' = [word_timestamps |-> word_timestamps]
          /\ result' = TranscribePcmS16le(engine, word_timestamps)
    /\ call' = "transcribe_pcm_s16le"
    /\ UNCHANGED <<overflow_checks, utterances, engine>>

CallTranscribeAudio ==
    /\ call = "none"
    /\ \E audio \in SampleAudio, word_timestamps \in BOOLEAN :
          /\ args' = [audio |-> audio, word_timestamps |-> word_timestamps]
          /\ result' = TranscribeAudio(engine, audio, word_timestamps)
    /\ call' = "transcribe_audio"
    /\ UNCHANGED <<overflow_checks, utterances, engine>>

NextTranscribe == CallTranscribePcmS16le \/ CallTranscribeAudio

SpecTranscribe == InitTranscribe /\ [][NextTranscribe]_vars

\* ------------------------------------------------ what the claims speak of

IsDigitChar(c) == \E d \in 0..9 : DigitChar(d) = c

DigitVal(c) == CHOOSE d \in 0..9 : DigitChar(d) = c

\* The number written by the digit characters s[a..b].
RECURSIVE FieldVal(_, _, _)
FieldVal(s, a, b) ==
    IF a > b THEN 0 ELSE FieldVal(s, a, b - 1) * 10 + DigitVal(s[b])

\* s is two digits, a colon, two digits, a colon, two digits, the marker and
\* three digits.
HasClockShape(s, marker) ==
    /\ Len(s) = 12
    /\ \A k \in {1, 2, 4, 5, 7, 8, 10, 11, 12} : IsDigitChar(s[k])
    /\ s[3] = ":" /\ s[6] = ":"
    /\ <<s[9]>> = marker

\* The milliseconds a string of that shape stands for, when its minutes and
\* seconds are below 60.
ClockMs(s) ==
    FieldVal(s, 1, 2) * HourMs + FieldVal(s, 4, 5) * MinuteMs
        + FieldVal(s, 7, 8) * SecondMs + FieldVal(s, 10, 12)

RECURSIVE ConcatAll(_)
ConcatAll(parts) ==
    IF parts = <<>> THEN <<>> ELSE Head(parts) \o ConcatAll(Tail(parts))

\* s without its leading and trailing whitespace: what lies between its first and
\* its last character that is not whitespace.
TrimmedRef(s) ==
    LET solid == {k \in 1..Len(s) : ~IsWhitespace(s[k])}
    IN  IF solid = {} THEN <<>>
        ELSE SubSeq(s, CHOOSE k \in solid : \A j \in solid : k <= j,
                       CHOOSE k \in solid : \A j \in solid : k >= j)

\* The conversion of a timestamp in exact arithmetic: ten times t, split into
\* hours, minutes, seconds and milliseconds, the hours shown in at least two digits.
ExactTimestamp(t, marker) ==
    LET h == DivMag(Mul10Mag(t.mag), HourMs)
        m == h.r \div MinuteMs
        sec == (h.r % MinuteMs) \div SecondMs
    IN  PadZero(FALSE, h.q, 2) \o <<":">> \o PadZero(FALSE, NatDigits(m), 2)
            \o <<":">> \o PadZero(FALSE, NatDigits(sec), 2) \o marker
            \o PadZero(FALSE, NatDigits(h.r % SecondMs), 3)

\* The text line of a cue: the trimmed text with each "-->" replaced by "->".
SanitizedRef(text) == Replace(TrimmedRef(text), LongArrow, ShortArrow)

TimesOf(us) == UNION {{us[k].start, us[k].stop} : k \in 1..Len(us)}

NonNegativeTimes(us) == \A t \in TimesOf(us) : ~t.neg

\* The number of places of s at which pat occurs.
CountOcc(s, pat) ==
    Cardinality({k \in 1..(Len(s) - Len(pat) + 1) : SubSeq(s, k, k + Len(pat) - 1) = pat})

HoursWidth(s) ==
    (CHOOSE k \in 1..Len(s) : s[k] = ":" /\ \A j \in 1..(k - 1) : s[j] # ":") - 1

ExpectedSrt(us) ==
    ConcatAll([i \in 1..Len(us) |->
        DigitChars(NatDigits(i)) \o Newline
            \o ExactTimestamp(us[i].start, <<",">>) \o CueArrow
            \o ExactTimestamp(us[i].stop, <<",">>) \o Newline
            \o SanitizedRef(us[i].text) \o Newline])

\* C2 (as claimed): for every transcript with non-negative timestamps as_srt() returns
\* the concatenation over the utterances, i = 1, 2, ..., of
\* "<i>\n<start> --> <stop>\n<text>\n", the timestamps converted with a comma marker
\* and the hours shown, the text trimmed and sanitized.
C2_SrtIsIndexedCues ==
    (call = "as_srt" /\ NonNegativeTimes(utterances))
        => result = Ok(ExpectedSrt(utterances))

\* ------------------------------------------------------------------ C3
\* The header and the cues of a WebVTT rendering.
ExpectedVtt(us) ==
    VttHeader \o ConcatAll([i \in 1..Len(us) |->
        ExactTimestamp(us[i].start, <<".">>) \o CueArrow
            \o ExactTimestamp(us[i].stop, <<".">>) \o Newline
            \o SanitizedRef(us[i].text) \o Newline \o Newline])

\* C3 (as claimed): for every transcript with non-negative timestamps as_vtt() returns
\* "WEBVTT\n" followed by one cue "<start> --> <stop>\n<text>\n\n" per utterance, in
\* order, the timestamps converted with a period marker and the hours shown.
C3_VttIsHeaderAndCues ==
    (call = "as_vtt" /\ NonNegativeTimes(utterances))
        => result = Ok(ExpectedVtt(utterances))

\* ------------------------------------------------------------------ C4
\* C4: as_text() never fails, whatever the timestamps, and returns the utterances'
\* texts in order, each without its leading and trailing whitespace and followed by
\* one newline, and nothing else; " hello world " alone gives "hello world\n".
C4_TextIsTrimmedLines ==
    call = "as_text"
        => /\ result = Ok(ConcatAll([i \in 1..Len(utterances) |->
                              TrimmedRef(utterances[i].text) \o Newline]))
           /\ (Len(utterances) = 1 /\ utterances[1].text = HelloWorld)
                  => result.value = SubSeq(HelloWorld, 2, 12) \o Newline

\* as_text() ran on two utterances of which one starts and ends with whitespace and
\* one has a negative timestamp.
C4_Witness ==
    /\ call = "as_text"
    /\ Len(utterances) = 2
    /\ utterances[1].text = HelloWorld
    /\ utterances[2].start.neg
    /\ utterances[2].text # <<>>
    /\ result.kind = "ok"

\* ------------------------------------------------------------------ C5
\* C5 (as claimed): in what as_vtt() and as_srt() return, no text line holds "-->":
\* the only occurrences of "-->" are the cues' timestamp arrows, one per utterance.
C5_NoArrowLeftInText ==
    (call \in {"as_vtt", "as_srt"} /\ result.kind = "ok")
        => CountOcc(result.value, LongArrow) = Len(utterances)

\* ------------------------------------------------------------------ C6
\* C6 (as claimed): as_vtt() and as_srt() abort on the assertion whenever a timestamp
\* is negative, and a returned rendering never holds a timestamp computed from a
\* wrapped-around millisecond value.
C6_NoNegativeNoWraparound ==
    call \in {"as_vtt", "as_srt"}
        => /\ ~NonNegativeTimes(utterances)
                  => result = Panic("non-negative timestamp expected")
           /\ result.kind = "ok"
                  => \A t \in TimesOf(utterances) : ~OutOfI64(FALSE, Mul10Mag(t.mag))

\* ------------------------------------------------------------------ C7
\* Every token of the inference output, segment after segment, as an utterance.
AllTokens(eng) ==
    ConcatAll([i \in 1..Len(eng.segments) |->
        [j \in 1..Len(eng.segments[i].tokens) |->
            Utterance(eng.segments[i].tokens[j].t0, eng.segments[i].tokens[j].t1,
                      eng.segments[i].tokens[j].text)]])

OpensSpecial(text) == Len(text) >= 2 /\ text[1] = "[" /\ text[2] = "_"

Transcribed == call \in {"transcribe_pcm_s16le", "transcribe_audio"}

\* C7: when a transcription with word_timestamps = true succeeds, no word utterance
\* has a text that starts with "[_", and word_utterances is exactly the tokens whose
\* text does not start with "[_", in segment order then token order, each with its
\* text and its t0 and t1 as start and stop.
C7_WordsAreTheUnmarkedTokens ==
    (Transcribed /\ args.word_timestamps /\ result.kind = "ok")
        => /\ result.value.word_utterances.some
           /\ LET words == result.value.word_utterances.val
              IN  /\ \A k \in 1..Len(words) : ~OpensSpecial(words[k].text)
                  /\ words = SelectSeq(AllTokens(engine),
                                       LAMBDA w : ~OpensSpecial(w.text))

\* A transcription with word timestamps succeeded on two segments that hold special
\* tokens, a word and a word that opens with a bracket.
C7_Witness ==
    /\ Transcribed /\ args.word_timestamps /\ result.kind = "ok"
    /\ Len(engine.segments) = 2
    /\ engine.segments[1].tokens = <<BegToken, BracketToken>>
    /\ engine.segments[2].tokens = <<WordToken, BegToken>>
    /\ Len(result.value.word_utterances.val) = 2

\* ------------------------------------------------------------------ C8
\* C8: the Transcript of every successful transcription has word_utterances present
\* exactly when word_timestamps was true: None without it whatever the tokens, Some
\* with it even when there is no segment or every token was filtered out.
C8_WordsPresentIffAsked ==
    (Transcribed /\ result.kind = "ok")
        => (result.value.word_utterances.some <=> args.word_timestamps)

\* A transcription without word timestamps succeeded on an engine with word tokens.
C8_Witness ==
    /\ Transcribed /\ ~args.word_timestamps /\ result.kind = "ok"
    /\ Len(engine.segments) = 2
    /\ engine.segments[1].tokens = <<WordToken, BracketToken>>
    /\ result.value.word_utterances = None

\* ------------------------------------------------------------------ C9
\* C9 (as claimed): decode returns the AudioDecodeError error, and neither panics nor
\* returns samples, whenever the bytes are not recognized audio; samples are
\* returned only for input that was decoded.
C9_UndecodableIsAnError ==
    call = "decode"
        => /\ ~args.bytes.recognized => result = Err("AudioDecodeError")
           /\ result.kind = "ok" => args.bytes.recognized

\* ------------------------------------------------------------------ C10
\* Whether transcribe_pcm_s16le makes the call that the engine fails.
FaultMet(eng, word_timestamps) ==
    /\ eng.fault.some
    /\ eng.fault.val.call \in {"full_n_tokens", "full_get_token_text",
                               "full_get_token_data"} => word_timestamps

\* C10 (as claimed): if any engine call of the transcription fails (creating the
\* state, running the inference, reading the segment count or any segment or token),
\* transcribe_pcm_s16le returns Err wrapping that engine error and no Transcript; a
\* Transcript has one utterance per engine segment, in order.
C10_EngineFailureIsAnErr ==
    call = "transcribe_pcm_s16le"
        => /\ FaultMet(engine, args.word_timestamps)
                  => result = Err([WhisperError |-> engine.fault.val.error])
           /\ result.kind = "ok"
                  => result.value.utterances =
                         [i \in 1..Len(engine.segments) |->
                             Utterance(engine.segments[i].t0, engine.segments[i].t1,
                                       engine.segments[i].text)]

\* ================================================================ download

ModelTypes ==
    { "TinyEn", "Tiny", "BaseEn", "Base", "SmallEn", "Small", "MediumEn", "Medium",
      "LargeV1", "LargeV2", "LargeV3" }

UrlPrefix == "https://huggingface.co/ggerganov/whisper.cpp/resolve/main/ggml-"

\* impl Display for ModelType: the prefix and the file of the variant.
ModelUrl(model) ==
    <<UrlPrefix,
      CASE model = "TinyEn" -> "tiny.en.bin"
        [] model = "Tiny" -> "tiny.bin"
        [] model = "BaseEn" -> "base.en.bin"
        [] model = "Base" -> "base.bin"
        [] model = "SmallEn" -> "small.en.bin"
        [] model = "Small" -> "small.bin"
        [] model = "MediumEn" -> "medium.en.bin"
        [] model = "Medium" -> "medium.bin"
        [] model = "LargeV1" -> "large-v1.bin"
        [] model = "LargeV2" -> "large-v2.bin"
        [] model = "LargeV3" -> "large-v3.bin">>

\* The number with the decimal digits ds (a small one).
RECURSIVE FieldOfDigits(_)
FieldOfDigits(ds) ==
    IF ds = <<>> THEN 0 ELSE FieldOfDigits(SubSeq(ds, 1, Len(ds) - 1)) * 10 + ds[Len(ds)]

\* The digits of a header value: those after an optional "+".
UnsignedPart(s) == IF s # <<>> /\ s[1] = "+" THEN Tail(s) ELSE s

\* str::parse::<usize>(): the magnitude written by s, or None when s is empty, holds
\* a character that is no digit, or writes a number above usize::MAX = 2^64 - 1.
ParseUsize(s) ==
    LET ds == UnsignedPart(s) IN
    IF ds = <<>> \/ \E k \in 1..Len(ds) : \A d \in 0..9 : DigitChar(d) # ds[k]
    THEN None
    ELSE LET mag == StripZeros([k \in 1..Len(ds) |->
                        CHOOSE d \in 0..9 : DigitChar(d) = ds[k]])
         IN  IF CmpMag(mag, Two64) >= 0 THEN None ELSE Some(mag)

\* .parse().unwrap_or_default()
ParseOrDefault(s) ==
    LET parsed == ParseUsize(s) IN IF parsed.some THEN parsed.val ELSE <<0>>

\* resp.into_reader().read_to_end(&mut bytes): the bytes the server sent before it
\* closed the connection, no more of them than the length the header declares; a
\* transport error ends the read with an error, and so does, in the versions of
\* ureq that report it (resp.eof_is_error), a body shorter than that length.
ReadToEnd(resp) ==
    LET limit == ParseUsize(resp.header.val) IN
    IF resp.io_error THEN Err([IoError |-> "transport"])
    ELSE IF ~limit.some THEN Ok(resp.body)
    ELSE IF CmpMag(NatDigits(Len(resp.body)), limit.val) >= 0
         THEN Ok([k \in 1..FieldOfDigits(limit.val) |-> resp.body[k]])
    ELSE IF resp.eof_is_error THEN Err([IoError |-> "UnexpectedEof"])
    ELSE Ok(resp.body)

\* The comparison left out: any number of bytes passes.
LengthNotChecked(bytes, len) == TRUE

\* bytes.len() == len of assert_eq!(bytes.len(), len)
LengthChecked(bytes, len) == NatDigits(Len(bytes)) = len

\* WhisperContext::new_from_buffer_with_params accepts a buffer that starts with the
\* model file's magic (the byte 1 here); it rejects every other, the empty one too.
LoadsAsModel(bytes) == bytes # <<>> /\ bytes[1] = 1

\* Model::download, given what ureq::get(url).call() comes back with.
Download(model, resp) ==
    IF resp.kind = "error" THEN Err([DownloadError |-> ModelUrl(model)])
    ELSE IF ~resp.header.some
         THEN Panic("assertion failed: resp.has(Content-Length)")
    ELSE LET len == ParseOrDefault(resp.header.val)
             read == ReadToEnd(resp)
         IN  IF read.kind # "ok" THEN read
             ELSE IF ~LengthChecked(read.value, len)
                  THEN Panic("assertion left == right failed")
             ELSE IF ~LoadsAsModel(read.value)
                  THEN Err([WhisperError |-> "InitError"])
             ELSE Ok([context |-> [buffer |-> read.value]])

\* ------------------------------------------------------- download, inputs

\* The number of bytes of the longest response body.
MaxBodyLen == 3

Bodies == UNION {[1..n -> {0, 1}] : n \in 0..MaxBodyLen}

\* Content-Length values: every length up to one more than the longest body, and
\* values written with a sign or a leading zero, above usize::MAX, with a letter,
\* and empty.
HeaderValues ==
    {DigitChars(NatDigits(n)) : n \in 0..(MaxBodyLen + 1)}
        \cup { <<"+", "2">>, <<"0", "2">>, DigitChars(Two64), <<"2", "x">>, <<>> }

\* What ureq::get(url).call() can come back with: an error, or a response with or
\* without a Content-Length header and the body that the server sends.
Responses ==
    {[kind |-> "error"]}
        \cup {[kind |-> "response", header |-> h, body |-> b,
               io_error |-> io, eof_is_error |-> eof] :
                  h \in {None} \cup {Some(v) : v \in HeaderValues},
                  b \in Bodies, io \in BOOLEAN, eof \in BOOLEAN}

InitDownload ==
    /\ overflow_checks = FALSE
    /\ utterances = <<>>
    /\ engine = NoEngine
    /\ call = "none"
    /\ args = NoArgs
    /\ result = NoResult

CallDownload ==
    /\ call = "none"
    /\ \E model \in ModelTypes, resp \in Responses :
          /\ args' = [model |-> model, response |-> resp]
          /\ result' = Download(model, resp)
    /\ call' = "download"
    /\ UNCHANGED <<overflow_checks, utterances, engine>>

NextDownload == CallDownload

SpecDownload == InitDownload /\ [][NextDownload]_vars

\* ------------------------------------------------------------------ C11
\* Whether the header value h is a decimal number, which is then the declared length.
IsDecimal(h) ==
    LET ds == IF h # <<>> /\ h[1] = "+" THEN Tail(h) ELSE h
    IN  ds # <<>> /\ \A k \in 1..Len(ds) : IsDigitChar(ds[k])

\* Whether the decimal header value h declares the length n.
Declares(h, n) ==
    LET ds == IF h[1] = "+" THEN Tail(h) ELSE h
    IN  StripZeros([k \in 1..Len(ds) |-> DigitVal(ds[k])]) = NatDigits(n)

\* Whether the decimal header value h declares more than n.
DeclaresMoreThan(h, n) ==
    LET ds == IF h[1] = "+" THEN Tail(h) ELSE h
    IN  CmpMag(StripZeros([k \in 1..Len(ds) |-> DigitVal(ds[k])]), NatDigits(n)) > 0

\* C11: Model::download never builds a model from a truncated or unchecked body: when
\* the response has no Content-Length header, or declares a length N and the stream
\* ends after fewer than N bytes, the call fails and returns no Model; a Model is
\* built only from a buffer whose length is the declared N.
C11_NoModelFromShortBody ==
    (call = "download" /\ args.response.kind = "response")
        => LET resp == args.response IN
           /\ ~resp.header.some => result.kind # "ok"
           /\ (/\ resp.header.some
               /\ IsDecimal(resp.header.val)
               /\ DeclaresMoreThan(resp.header.val, Len(resp.body)))
                  => result.kind # "ok"
           /\ result.kind = "ok"
                  => /\ resp.header.some
                     /\ IsDecimal(resp.header.val)
                     /\ Declares(resp.header.val, Len(result.value.context.buffer))

\* download ran on a response that declares 3 bytes and whose stream ended, without
\* an error of the reader, after 2, and panicked on the comparison of the lengths.
C11_Witness ==
    /\ call = "download"
    /\ args.response.kind = "response"
    /\ args.response.header = Some(<<"3">>)
    /\ args.response.body = <<1, 0>>
    /\ ~args.response.io_error
    /\ ~args.response.eof_is_error
    /\ result = Panic("assertion left == right failed")

====
